---- MODULE Spec2Model ----
(***************************************************************************)
(* Model of csvapi.py: the three cell normalizers (clean_amount,           *)
(* clean_category, clean_date) and the POST /analyze handler analyze_csv.  *)
(*                                                                         *)
(* Text is a sequence of one-character strings, so that trimming,          *)
(* lowercasing, substring search and number/date parsing are computed and  *)
(* not assumed.  A cell value is a tagged record: text Txt(s), a float     *)
(* [m, e] standing for the exact decimal m * 10^-e (kept normalised, so    *)
(* two floats are equal iff their records are), the missing value NaN, a   *)
(* parsed date, NaT, or Python's None.                                     *)
(***************************************************************************)
EXTENDS Integers, Sequences, FiniteSets, TLC

VARIABLES
    pc,            \* position of the running call
    filename,      \* file.filename of the upload
    upload,        \* the uploaded body: undecodable, malformed, or a table
    contents,      \* result of `await file.read()`
    df,            \* the DataFrame
    amount_col,    \* local amount_col
    category_col,  \* local category_col
    date_cols,     \* local date_cols
    auto_parse,    \* per row, what pandas' format-less parser does with the date cell
    food_mask,     \* local food_mask
    exc,           \* exception travelling to the except clause
    response,      \* what the caller receives
    amount_in,     \* argument of a clean_amount call
    amount_out,    \* its return value
    date_in,       \* argument of a clean_date call
    date_str,      \* local date_str once trimmed
    date_auto,     \* what pandas' format-less parser does with date_str
    date_idx,      \* loop position in date_formats
    date_tried,    \* the parse attempts made so far, in order
    date_out       \* its return value

vars == <<pc, filename, upload, contents, df, amount_col, category_col, date_cols,
          auto_parse, food_mask, exc, response, amount_in, amount_out,
          date_in, date_str, date_auto, date_idx, date_tried, date_out>>

reqVars == <<filename, upload, contents, df, amount_col, category_col, date_cols,
             auto_parse, food_mask, exc, response>>
amtVars == <<amount_in, amount_out>>
dateVars == <<date_in, date_str, date_auto, date_idx, date_tried, date_out>>

None == [t |-> "none"]
NaN == [t |-> "nan"]
NaT == [t |-> "nat"]
Txt(s) == [t |-> "str", s |-> s]

(***************************************************************************)
(* Text primitives (Python str methods and the re module as used here).    *)
(***************************************************************************)
Whitespace == {" ", "\t"}

UpperCase == <<"A","B","C","D","E","F","G","H","I","J","K","L","M",
               "N","O","P","Q","R","S","T","U","V","W","X","Y","Z">>
LowerCase == <<"a","b","c","d","e","f","g","h","i","j","k","l","m",
               "n","o","p","q","r","s","t","u","v","w","x","y","z">>

LowerChar(c) ==
    IF \E i \in 1..26 : UpperCase[i] = c
    THEN LowerCase[CHOOSE i \in 1..26 : UpperCase[i] = c]
    ELSE c

\* str.lower()
Lower(s) == [i \in 1..Len(s) |-> LowerChar(s[i])]

RECURSIVE LStrip(_)
LStrip(s) == IF s # <<>> /\ Head(s) \in Whitespace THEN LStrip(Tail(s)) ELSE s

RECURSIVE RStrip(_)
RStrip(s) ==
    IF s # <<>> /\ s[Len(s)] \in Whitespace THEN RStrip(SubSeq(s, 1, Len(s) - 1)) ELSE s

\* str.strip()
Strip(s) == RStrip(LStrip(s))

\* `w in s`
Contains(s, w) == \E i \in 0..(Len(s) - Len(w)) : SubSeq(s, i + 1, i + Len(w)) = w

\* any(word in s for word in words)
ContainsAny(s, words) == \E k \in 1..Len(words) : Contains(s, words[k])

\* s.startswith(p), s.endswith(p)
StartsWith(s, p) == Len(s) >= Len(p) /\ SubSeq(s, 1, Len(p)) = p
EndsWith(s, p) == Len(s) >= Len(p) /\ SubSeq(s, Len(s) - Len(p) + 1, Len(s)) = p

\* re.sub('[chars]', '', s)
RECURSIVE RemoveChars(_, _)
RemoveChars(s, chars) ==
    IF s = <<>> THEN <<>>
    ELSE IF Head(s) \in chars THEN RemoveChars(Tail(s), chars)
    ELSE <<Head(s)>> \o RemoveChars(Tail(s), chars)

(***************************************************************************)
(* Floats as exact decimals.                                               *)
(***************************************************************************)
DigitChars == <<"0","1","2","3","4","5","6","7","8","9">>
IsDigit(c) == \E i \in 1..10 : DigitChars[i] = c
DigitVal(c) == (CHOOSE i \in 1..10 : DigitChars[i] = c) - 1
AllDigits(s) == \A i \in 1..Len(s) : IsDigit(s[i])

RECURSIVE NatOf(_)
NatOf(ds) == IF ds = <<>> THEN 0
             ELSE NatOf(SubSeq(ds, 1, Len(ds) - 1)) * 10 + DigitVal(ds[Len(ds)])

RECURSIVE Pow10(_)
Pow10(n) == IF n = 0 THEN 1 ELSE 10 * Pow10(n - 1)

RECURSIVE Norm(_, _)
Norm(m, e) == IF e > 0 /\ m % 10 = 0 THEN Norm(m \div 10, e - 1)
              ELSE [t |-> "float", m |-> m, e |-> e]

Zero == [t |-> "float", m |-> 0, e |-> 0]
IsFloat(v) == v.t = "float"
Neg(d) == [t |-> "float", m |-> 0 - d.m, e |-> d.e]
Max(a, b) == IF a >= b THEN a ELSE b
Add(a, b) ==
    LET e == Max(a.e, b.e)
    IN  Norm(a.m * Pow10(e - a.e) + b.m * Pow10(e - b.e), e)

\* The text float() accepts, on the characters the inputs are made of: an
\* optional sign, then either digits with at most one '.', at least one
\* digit, or the word nan in any case.
Unsigned(s) ==
    /\ \E i \in 1..Len(s) : IsDigit(s[i])
    /\ \A i \in 1..Len(s) : IsDigit(s[i]) \/ s[i] = "."
    /\ Cardinality({i \in 1..Len(s) : s[i] = "."}) <= 1
Signed(s) == s # <<>> /\ Head(s) \in {"+", "-"}
Unsign(s) == IF Signed(s) THEN Tail(s) ELSE s
IsNanWord(s) == Lower(s) = <<"n","a","n">>
FloatOk(s) == Unsigned(Unsign(s)) \/ IsNanWord(Unsign(s))

UnsignedVal(s) ==
    LET dot == IF \E i \in 1..Len(s) : s[i] = "."
               THEN CHOOSE i \in 1..Len(s) : s[i] = "." ELSE Len(s) + 1
        frac == IF dot > Len(s) THEN 0 ELSE Len(s) - dot
    IN  Norm(NatOf(RemoveChars(s, {"."})), frac)

\* float(s), for FloatOk(s); the float nan is the missing value
FloatVal(s) ==
    IF IsNanWord(Unsign(s)) THEN NaN
    ELSE IF Signed(s) /\ Head(s) = "-" THEN Neg(UnsignedVal(Tail(s)))
    ELSE UnsignedVal(Unsign(s))

RECURSIVE NatStr(_)
NatStr(n) == IF n < 10 THEN <<DigitChars[n + 1]>>
             ELSE NatStr(n \div 10) \o <<DigitChars[(n % 10) + 1]>>

RECURSIVE ZeroPad(_, _)
ZeroPad(s, n) == IF Len(s) >= n THEN s ELSE ZeroPad(<<"0">> \o s, n)

\* str(x) of a float x (positional notation, the range the cells stay in)
FloatStr(d) ==
    LET abs == IF d.m < 0 THEN 0 - d.m ELSE d.m
        ds == ZeroPad(NatStr(abs), d.e + 1)
        int == SubSeq(ds, 1, Len(ds) - d.e)
        frac == IF d.e = 0 THEN <<"0">> ELSE SubSeq(ds, Len(ds) - d.e + 1, Len(ds))
    IN  (IF d.m < 0 THEN <<"-">> ELSE <<>>) \o int \o <<".">> \o frac

\* round(x, 2); ties go to the even neighbour
Round2(d) ==
    IF d.e <= 2 THEN d
    ELSE LET p == Pow10(d.e - 2)
             q == d.m \div p
             r == d.m % p
             up == (2 * r > p) \/ (2 * r = p /\ q % 2 = 1)
         IN  Norm(IF up THEN q + 1 ELSE q, 2)

\* pd.isna(v)
IsNa(v) == v = NaN

\* str(v) of a cell: text stays, a float prints
Str(v) == IF IsFloat(v) THEN FloatStr(v) ELSE v.s

(***************************************************************************)
(* clean_amount                                                            *)
(***************************************************************************)
AmountJunk == {"$", "€", "£", "¥", "₹", ","} \cup Whitespace

\* Mutation: the parentheses are dropped but no minus sign is prepended.
clean_amount_unsigned(amount_str) ==
    IF IsNa(amount_str) \/ amount_str = Txt(<<>>) THEN Zero
    ELSE LET s1 == RemoveChars(Strip(Str(amount_str)), AmountJunk)
             s2 == IF StartsWith(s1, <<"(">>) /\ EndsWith(s1, <<")">>)
                   THEN SubSeq(s1, 2, Len(s1) - 1) ELSE s1
         IN  IF FloatOk(s2) THEN FloatVal(s2) ELSE Zero

\* Mutation: a failed parse yields a missing value instead of 0.0.
clean_amount_nan(amount_str) ==
    IF IsNa(amount_str) \/ amount_str = Txt(<<>>) THEN Zero
    ELSE LET s1 == RemoveChars(Strip(Str(amount_str)), AmountJunk)
             s2 == IF StartsWith(s1, <<"(">>) /\ EndsWith(s1, <<")">>)
                   THEN <<"-">> \o SubSeq(s1, 2, Len(s1) - 1) ELSE s1
         IN  IF FloatOk(s2) THEN FloatVal(s2) ELSE NaN

clean_amount(amount_str) ==
    IF IsNa(amount_str) \/ amount_str = Txt(<<>>) THEN Zero
    ELSE LET s1 == RemoveChars(Strip(Str(amount_str)), AmountJunk)
             s2 == IF StartsWith(s1, <<"(">>) /\ EndsWith(s1, <<")">>)
                   THEN <<"-">> \o SubSeq(s1, 2, Len(s1) - 1) ELSE s1
         IN  IF FloatOk(s2) THEN FloatVal(s2) ELSE Zero

(***************************************************************************)
(* clean_category                                                          *)
(***************************************************************************)
clean_category(category_str) ==
    IF IsNa(category_str) THEN Txt(<<>>) ELSE Txt(Lower(Strip(Str(category_str))))

(***************************************************************************)
(* clean_date                                                              *)
(***************************************************************************)
Fail == [t |-> "fail"]          \* the call raised
Date(y, m, d) == [t |-> "date", y |-> y, m |-> m, d |-> d]
Inferred(s) == [t |-> "inferred", s |-> s]   \* a Timestamp the format-less parser made of s

MonthNames ==
    << <<"j","a","n","u","a","r","y">>,
       <<"f","e","b","r","u","a","r","y">>,
       <<"m","a","r","c","h">>,
       <<"a","p","r","i","l">>,
       <<"m","a","y">>,
       <<"j","u","n","e">>,
       <<"j","u","l","y">>,
       <<"a","u","g","u","s","t">>,
       <<"s","e","p","t","e","m","b","e","r">>,
       <<"o","c","t","o","b","e","r">>,
       <<"n","o","v","e","m","b","e","r">>,
       <<"d","e","c","e","m","b","e","r">> >>

\* %B is the full name, %b its first three letters
MonthName(tok, i) == IF tok = "%B" THEN MonthNames[i] ELSE SubSeq(MonthNames[i], 1, 3)

IsLeap(y) == (y % 4 = 0 /\ y % 100 # 0) \/ y % 400 = 0
DaysIn(y, m) == IF m = 2 THEN (IF IsLeap(y) THEN 29 ELSE 28)
                ELSE IF m \in {4, 6, 9, 11} THEN 30 ELSE 31
ValidDate(r) == r.y >= 1 /\ r.m \in 1..12 /\ r.d \in 1..DaysIn(r.y, r.m)

\* A one- or two-digit field: "1".."9", or two digits with value in 1..hi
FieldOk(ds, hi) ==
    /\ AllDigits(ds)
    /\ \/ Len(ds) = 1 /\ ds # <<"0">>
       \/ Len(ds) = 2 /\ NatOf(ds) \in 1..hi

\* The ways text s matches the directive sequence fmt entirely, as field
\* assignments (strptime's regular expression: %Y four digits, %m and %d one
\* or two digits, month names in any case, a blank for one or more spaces;
\* the day written as a blank and a digit is not among the inputs).
RECURSIVE MatchFmt(_, _, _)
MatchFmt(s, fmt, acc) ==
    IF fmt = <<>> THEN (IF s = <<>> THEN {acc} ELSE {})
    ELSE LET tok == Head(fmt)
             rest == Tail(fmt)
             After(k) == SubSeq(s, k + 1, Len(s))
         IN  IF tok = "%Y" THEN
                 IF Len(s) >= 4 /\ AllDigits(SubSeq(s, 1, 4))
                 THEN MatchFmt(After(4), rest, [acc EXCEPT !.y = NatOf(SubSeq(s, 1, 4))])
                 ELSE {}
             ELSE IF tok = "%m" THEN
                 UNION { IF Len(s) >= k /\ FieldOk(SubSeq(s, 1, k), 12)
                         THEN MatchFmt(After(k), rest, [acc EXCEPT !.m = NatOf(SubSeq(s, 1, k))])
                         ELSE {} : k \in {1, 2} }
             ELSE IF tok = "%d" THEN
                 UNION { IF Len(s) >= k /\ FieldOk(SubSeq(s, 1, k), 31)
                         THEN MatchFmt(After(k), rest, [acc EXCEPT !.d = NatOf(SubSeq(s, 1, k))])
                         ELSE {} : k \in {1, 2} }
             ELSE IF tok \in {"%B", "%b"} THEN
                 UNION { IF StartsWith(Lower(s), MonthName(tok, i))
                         THEN MatchFmt(After(Len(MonthName(tok, i))), rest, [acc EXCEPT !.m = i])
                         ELSE {} : i \in 1..12 }
             ELSE IF tok = " " THEN
                 IF s # <<>> /\ Head(s) \in Whitespace
                 THEN MatchFmt(LStrip(s), rest, acc) ELSE {}
             ELSE IF s # <<>> /\ Head(s) = tok
                 THEN MatchFmt(Tail(s), rest, acc) ELSE {}

\* pd.to_datetime(s, format=fmt): the Timestamp, NaT for empty text, or Fail
StrpTime(s, fmt) ==
    IF s = <<>> THEN NaT
    ELSE LET ok == {r \in MatchFmt(s, fmt, [y |-> 0, m |-> 0, d |-> 0]) : ValidDate(r)}
         IN  IF ok = {} THEN Fail
             ELSE LET r == CHOOSE r \in ok : TRUE IN Date(r.y, r.m, r.d)

\* Mutation: the day-first slash format is tried before the month-first one.
date_formats_day_first ==
    << <<"%Y","-","%m","-","%d">>,
       <<"%d","/","%m","/","%Y">>,
       <<"%m","/","%d","/","%Y">>,
       <<"%m","-","%d","-","%Y">>,
       <<"%d","-","%m","-","%Y">>,
       <<"%Y","/","%m","/","%d">>,
       <<"%d",".","%m",".","%Y">>,
       <<"%m",".","%d",".","%Y">>,
       <<"%Y",".","%m",".","%d">>,
       <<"%B"," ","%d",","," ","%Y">>,
       <<"%b"," ","%d",","," ","%Y">>,
       <<"%d"," ","%B"," ","%Y">>,
       <<"%d"," ","%b"," ","%Y">> >>

date_formats ==
    << <<"%Y","-","%m","-","%d">>,
       <<"%m","/","%d","/","%Y">>,
       <<"%d","/","%m","/","%Y">>,
       <<"%m","-","%d","-","%Y">>,
       <<"%d","-","%m","-","%Y">>,
       <<"%Y","/","%m","/","%d">>,
       <<"%d",".","%m",".","%Y">>,
       <<"%m",".","%d",".","%Y">>,
       <<"%Y",".","%m",".","%d">>,
       <<"%B"," ","%d",","," ","%Y">>,
       <<"%b"," ","%d",","," ","%Y">>,
       <<"%d"," ","%B"," ","%Y">>,
       <<"%d"," ","%b"," ","%Y">> >>

AutoParse == <<"auto">>         \* the attempt without a format

\* What pd.to_datetime(s, infer_datetime_format=True) may do: raise, or
\* return some Timestamp.  The library decides; both are allowed for.
AutoOutcomes(s) == {Fail, Inferred(s)}

\* The loop over date_formats from position i, then the last resort.
RECURSIVE TryFormats(_, _, _)
TryFormats(s, i, auto) ==
    IF i > Len(date_formats) THEN (IF auto = Fail THEN None ELSE auto)
    ELSE IF StrpTime(s, date_formats[i]) # Fail THEN StrpTime(s, date_formats[i])
    ELSE TryFormats(s, i + 1, auto)

\* clean_date as one call; auto is what the format-less parser does with the text
clean_date(date_arg, auto) ==
    IF IsNa(date_arg) \/ date_arg = Txt(<<>>) THEN None
    ELSE TryFormats(Strip(Str(date_arg)), 1, auto)

(***************************************************************************)
(* analyze_csv: column inference                                           *)
(***************************************************************************)
amount_words ==
    << <<"a","m","o","u","n","t">>, <<"c","o","s","t">>, <<"p","r","i","c","e">>,
       <<"t","o","t","a","l">>, <<"s","p","e","n","d">>, <<"e","x","p","e","n","s","e">> >>
category_words ==
    << <<"c","a","t","e","g","o","r","y">>, <<"t","y","p","e">>,
       <<"c","l","a","s","s">>, <<"g","r","o","u","p">> >>
date_words == << <<"d","a","t","e">>, <<"t","i","m","e">>, <<"d","a","y">> >>

\* [col for col in columns if any(word in col for word in words)]
RECURSIVE ColsLike(_, _)
ColsLike(columns, words) ==
    IF columns = <<>> THEN <<>>
    ELSE IF ContainsAny(Head(columns), words)
         THEN <<Head(columns)>> \o ColsLike(Tail(columns), words)
         ELSE ColsLike(Tail(columns), words)

\* df.columns.str.strip().str.lower()
CleanColumns(columns) == [i \in 1..Len(columns) |-> Lower(Strip(columns[i]))]

\* Mutation: with no amount-like header the first column is taken.
PickAmountFirst(columns) ==
    IF ColsLike(columns, amount_words) # <<>> THEN Txt(ColsLike(columns, amount_words)[1])
    ELSE Txt(columns[1])

\* line 94, for a table with a column (columns[0] of none raises IndexError)
PickAmount(columns) ==
    IF ColsLike(columns, amount_words) # <<>> THEN Txt(ColsLike(columns, amount_words)[1])
    ELSE IF Len(columns) > 1 THEN Txt(columns[2])
    ELSE Txt(columns[1])

\* Mutation: with no category-like header the last column is taken.
PickCategoryLast(columns) ==
    IF ColsLike(columns, category_words) # <<>> THEN Txt(ColsLike(columns, category_words)[1])
    ELSE IF Len(columns) > 0 THEN Txt(columns[Len(columns)])
    ELSE None

\* line 95
PickCategory(columns) ==
    IF ColsLike(columns, category_words) # <<>> THEN Txt(ColsLike(columns, category_words)[1])
    ELSE IF Len(columns) > 0 THEN Txt(columns[1])
    ELSE None

(***************************************************************************)
(* The DataFrame: column labels and rows of cells.  Labels are unique in   *)
(* every table considered.                                                 *)
(***************************************************************************)
NRows(d) == Len(d.data)
HasCol(d, name) == \E i \in 1..Len(d.columns) : d.columns[i] = name
ColIndex(d, name) == CHOOSE i \in 1..Len(d.columns) : d.columns[i] = name

\* df[name]
GetCol(d, name) == [r \in 1..NRows(d) |-> d.data[r][ColIndex(d, name)]]

\* df[name] = vals: an existing label is overwritten in place, a new one appended
SetCol(d, name, vals) ==
    IF HasCol(d, name)
    THEN [d EXCEPT !.data = [r \in 1..NRows(d) |->
                                [d.data[r] EXCEPT ![ColIndex(d, name)] = vals[r]]]]
    ELSE [columns |-> Append(d.columns, name),
          data |-> [r \in 1..NRows(d) |-> Append(d.data[r], vals[r])]]

CLEAN_AMOUNT == <<"c","l","e","a","n","_","a","m","o","u","n","t">>
CLEAN_CATEGORY == <<"c","l","e","a","n","_","c","a","t","e","g","o","r","y">>
CLEAN_DATE == <<"c","l","e","a","n","_","d","a","t","e">>

\* lines 101-102
WithAmount(d, acol) ==
    SetCol(d, CLEAN_AMOUNT, [r \in 1..NRows(d) |-> clean_amount(GetCol(d, acol.s)[r])])
WithCategory(d, ccol) ==
    SetCol(d, CLEAN_CATEGORY, [r \in 1..NRows(d) |-> clean_category(GetCol(d, ccol.s)[r])])

\* lines 105-107; ok[r] tells whether the format-less parser copes with row r
WithDate(d, dcols, ok) ==
    IF dcols = <<>> THEN d
    ELSE SetCol(d, CLEAN_DATE,
                [r \in 1..NRows(d) |->
                    LET v == GetCol(d, dcols[1])[r]
                    IN  clean_date(v, IF ok[r] THEN Inferred(Strip(Str(v))) ELSE Fail)])

\* Whether clean_date gets as far as the format-less attempt on cell v
ReachesAuto(v) ==
    /\ ~(IsNa(v) \/ v = Txt(<<>>))
    /\ \A i \in 1..Len(date_formats) : StrpTime(Strip(Str(v)), date_formats[i]) = Fail

(***************************************************************************)
(* analyze_csv: filter and sum                                             *)
(***************************************************************************)
food_keywords ==
    << <<"f","o","o","d">>, <<"r","e","s","t","a","u","r","a","n","t">>,
       <<"g","r","o","c","e","r","y">>, <<"d","i","n","i","n","g">>,
       <<"m","e","a","l">>, <<"l","u","n","c","h">>, <<"d","i","n","n","e","r">>,
       <<"b","r","e","a","k","f","a","s","t">>, <<"c","a","f","e">>,
       <<"f","a","s","t"," ","f","o","o","d">>, <<"t","a","k","e","o","u","t">> >>

\* Mutation: a category must equal a keyword instead of containing one.
FoodMaskExact(d) ==
    [r \in 1..NRows(d) |->
        LET v == GetCol(d, CLEAN_CATEGORY)[r]
        IN  IF IsNa(v) THEN FALSE
            ELSE \E k \in 1..Len(food_keywords) : Str(v) = food_keywords[k]]

\* line 111: Series.str.contains('food|restaurant|...', na=False); the pattern
\* has no regex metacharacter besides '|', so it is a search for any keyword
FoodMask(d) ==
    [r \in 1..NRows(d) |->
        LET v == GetCol(d, CLEAN_CATEGORY)[r]
        IN  IF IsNa(v) THEN FALSE ELSE ContainsAny(Str(v), food_keywords)]

\* Series.sum() of the cells picked by mask: missing values are skipped
RECURSIVE SumWhere(_, _, _)
SumWhere(col, mask, n) ==
    IF n = 0 THEN Zero
    ELSE IF mask[n] /\ ~IsNa(col[n]) THEN Add(SumWhere(col, mask, n - 1), col[n])
    ELSE SumWhere(col, mask, n - 1)

\* lines 114 and 117
Answer(d, mask) == Round2(SumWhere(GetCol(d, CLEAN_AMOUNT), mask, NRows(d)))

EMAIL == "analyst@example.com"
EXAM == "tds-2025-05-roe"

\* lines 116-120
ResultRecord(answer) ==
    [status |-> 200, answer |-> answer, email |-> EMAIL, exam |-> EXAM]

\* line 78
NotCsvResponse == [status |-> 400, detail |-> <<"File must be a CSV">>]

\* Mutation: the failure is reported as the client's.
ErrorResponseClient(e) == [status |-> 400, detail |-> <<"Error processing CSV: ", e>>]

\* line 123
ErrorResponse(e) == [status |-> 500, detail |-> <<"Error processing CSV: ", e>>]

\* Mutation: any name with '.csv' in it passes.
IsCsvNameAnywhere(name) == Contains(name, <<".","c","s","v">>)

\* line 77
IsCsvName(name) == EndsWith(name, <<".","c","s","v">>)

(***************************************************************************)
(* analyze_csv, step by step.                                              *)
(***************************************************************************)
\* lines 77-78
CheckFilename ==
    /\ pc = "check"
    /\ IF ~IsCsvName(filename)
       THEN response' = NotCsvResponse /\ pc' = "done"
       ELSE response' = response /\ pc' = "read"
    /\ UNCHANGED <<filename, upload, contents, df, amount_col, category_col, date_cols,
                   auto_parse, food_mask, exc, amtVars, dateVars>>

\* line 82
ReadBody ==
    /\ pc = "read"
    /\ contents' = upload
    /\ pc' = "parse"
    /\ UNCHANGED <<filename, upload, df, amount_col, category_col, date_cols,
                   auto_parse, food_mask, exc, response, amtVars, dateVars>>

\* line 83: decode, then read_csv (which raises EmptyDataError when the text
\* has no column to offer)
ParseCsv ==
    /\ pc = "parse"
    /\ IF contents.kind = "undecodable"
       THEN exc' = "UnicodeDecodeError" /\ pc' = "except" /\ df' = df
       ELSE IF contents.kind = "malformed"
       THEN exc' = "ParserError" /\ pc' = "except" /\ df' = df
       ELSE IF contents.header = <<>>
       THEN exc' = "EmptyDataError" /\ pc' = "except" /\ df' = df
       ELSE /\ df' = [columns |-> contents.header, data |-> contents.rows]
            /\ pc' = "infer"
            /\ exc' = exc
    /\ UNCHANGED <<filename, upload, contents, amount_col, category_col, date_cols,
                   auto_parse, food_mask, response, amtVars, dateVars>>

\* lines 86-98
InferColumns ==
    /\ pc = "infer"
    /\ LET columns == CleanColumns(df.columns)
       IN  /\ df' = [df EXCEPT !.columns = columns]
           /\ date_cols' = ColsLike(columns, date_words)
           /\ IF ColsLike(columns, amount_words) = <<>> /\ Len(columns) = 0
              THEN /\ exc' = "IndexError"
                   /\ pc' = "except"
                   /\ UNCHANGED <<amount_col, category_col>>
              ELSE /\ amount_col' = PickAmount(columns)
                   /\ category_col' = PickCategory(columns)
                   /\ IF PickCategory(columns) = None
                      THEN exc' = "400: Could not identify category column" /\ pc' = "except"
                      ELSE exc' = exc /\ pc' = "clean"
    /\ UNCHANGED <<filename, upload, contents, auto_parse, food_mask, response,
                   amtVars, dateVars>>

\* lines 101-107
CleanData ==
    /\ pc = "clean"
    /\ \E ok \in [1..NRows(df) -> BOOLEAN] :
         /\ \A r \in 1..NRows(df) :
              ok[r] => (date_cols # <<>> /\ ReachesAuto(GetCol(df, date_cols[1])[r]))
         /\ auto_parse' = ok
         /\ df' = WithDate(WithCategory(WithAmount(df, amount_col), category_col),
                           date_cols, ok)
    /\ pc' = "aggregate"
    /\ UNCHANGED <<filename, upload, contents, amount_col, category_col, date_cols,
                   food_mask, exc, response, amtVars, dateVars>>

\* lines 110-120
Aggregate ==
    /\ pc = "aggregate"
    /\ food_mask' = FoodMask(df)
    /\ response' = ResultRecord(Answer(df, FoodMask(df)))
    /\ pc' = "done"
    /\ UNCHANGED <<filename, upload, contents, df, amount_col, category_col, date_cols,
                   auto_parse, exc, amtVars, dateVars>>

\* lines 122-123
ExceptHandler ==
    /\ pc = "except"
    /\ response' = ErrorResponse(exc)
    /\ pc' = "done"
    /\ UNCHANGED <<filename, upload, contents, df, amount_col, category_col, date_cols,
                   auto_parse, food_mask, exc, amtVars, dateVars>>

NextRequest ==
    \/ CheckFilename
    \/ ReadBody
    \/ ParseCsv
    \/ InferColumns
    \/ CleanData
    \/ Aggregate
    \/ ExceptHandler

(***************************************************************************)
(* Default values of the variables a specification leaves alone.           *)
(***************************************************************************)
ReqIdle ==
    /\ filename = <<>>
    /\ upload = None
    /\ contents = None
    /\ df = None
    /\ amount_col = None
    /\ category_col = None
    /\ date_cols = <<>>
    /\ auto_parse = <<>>
    /\ food_mask = <<>>
    /\ exc = "None"
    /\ response = None

AmtIdle == amount_in = NaN /\ amount_out = None

DateIdle ==
    /\ date_in = NaN
    /\ date_str = <<>>
    /\ date_auto = Fail
    /\ date_idx = 0
    /\ date_tried = <<>>
    /\ date_out = None

(***************************************************************************)
(* Requests.  Spec varies the file name and the header row; SpecRows fixes *)
(* a few header rows and varies the rows under them.  The tables are the   *)
(* ones read_csv can hand over: distinct labels (here also distinct once   *)
(* trimmed and lowercased), cells that are text or missing.  Amount text   *)
(* is made of digits, signs, dots, parentheses, junk characters and nan;   *)
(* exponents and infinities are not among the inputs.                      *)
(***************************************************************************)
MaxCols == 3
MaxRows == 2

Undecodable == [kind |-> "undecodable"]
Malformed == [kind |-> "malformed"]
Table(h, rs) == [kind |-> "table", header |-> h, rows |-> rs]

FileNames ==
    { <<"d","a","t","a",".","c","s","v">>,
      <<"r","e","p","o","r","t",".","t","x","t">>,
      <<"d","a","t","a",".","c","s","v",".","b","a","k">>,
      <<"D","A","T","A",".","C","S","V">> }

HeaderPool ==
    { <<" ","A","m","o","u","n","t"," ">>,
      <<"D","a","y"," ","T","o","t","a","l">>,
      <<"C","a","t","e","g","o","r","y">>,
      <<"c","l","e","a","n","_","d","a","t","e">>,
      <<"D","a","t","e">>,
      <<"n","a","m","e">>,
      <<"n","o","t","e">>,
      <<"E","x","p","e","n","s","e"," ","G","r","o","u","p">>,
      <<"c","l","e","a","n","_","a","m","o","u","n","t">>,
      <<"c","l","e","a","n","_","c","a","t","e","g","o","r","y">> }

Headers ==
    UNION { {h \in [1..n -> HeaderPool] : \A i, j \in 1..n : h[i] = h[j] => i = j}
            : n \in 0..MaxCols }

TAKEOUT == Txt(<<"T","a","k","e","o","u","t">>)
TWENTY == Txt(<<"2","0">>)

\* Under a varied header row: no row, or one row with the same cell throughout
ProbeRows(n) ==
    IF n = 0 THEN {<<>>}
    ELSE {<<>>, <<[i \in 1..n |-> TAKEOUT]>>, <<[i \in 1..n |-> TWENTY]>>}

InitRequest ==
    /\ pc = "check"
    /\ contents = None
    /\ df = None
    /\ amount_col = None
    /\ category_col = None
    /\ date_cols = <<>>
    /\ auto_parse = <<>>
    /\ food_mask = <<>>
    /\ exc = "None"
    /\ response = None
    /\ AmtIdle /\ DateIdle

Init ==
    /\ filename \in FileNames
    /\ upload \in {Undecodable, Malformed}
                  \cup UNION { {Table(h, rs) : rs \in ProbeRows(Len(h))} : h \in Headers }
    /\ InitRequest

Spec == Init /\ [][NextRequest]_vars

HeaderShapes ==
    { << <<"D","a","t","e">>, <<"C","a","t","e","g","o","r","y">>,
         <<" ","A","m","o","u","n","t"," ">> >>,
      << <<"C","a","t","e","g","o","r","y">>, <<"n","o","t","e">> >>,
      << <<"n","a","m","e">> >>,
      << <<"c","l","e","a","n","_","a","m","o","u","n","t">> >>,
      << <<"c","l","e","a","n","_","a","m","o","u","n","t">>, <<"n","o","t","e">> >> }

GROCERY == Txt(<<" ","G","r","o","c","e","r","y"," ","S","t","o","r","e">>)
TRANSPORT == Txt(<<"T","r","a","n","s","p","o","r","t">>)
DOLLARS == Txt(<<"$","1",",","2","3","4",".","5","0">>)
MILLS == Txt(<<"(","0",".","0","0","4",")">>)
NOTANUMBER == Txt(<<"N","A","N">>)
ISODATE == Txt(<<"2","0","2","4","-","0","1","-","0","2">>)
GARBAGE == Txt(<<"g","a","r","b","a","g","e">>)

\* The cells tried under a header, by what the header looks like
AmountCells == {MILLS, GROCERY, NOTANUMBER}
CategoryCells == {GROCERY, TRANSPORT, NaN}
DateCells == {ISODATE, GARBAGE}
GeneralCells == {GROCERY, DOLLARS, MILLS, NaN}

CellPool(h) ==
    IF ContainsAny(Lower(Strip(h)), date_words) THEN DateCells
    ELSE IF ContainsAny(Lower(Strip(h)), category_words) THEN CategoryCells
    ELSE IF ContainsAny(Lower(Strip(h)), amount_words) THEN AmountCells
    ELSE GeneralCells

RowsUnder(h) ==
    {row \in [1..Len(h) -> AmountCells \cup CategoryCells \cup DateCells \cup GeneralCells] :
        \A i \in 1..Len(h) : row[i] \in CellPool(h[i])}

InitRows ==
    /\ filename = <<"d","a","t","a",".","c","s","v">>
    /\ upload \in {Undecodable}
                  \cup UNION { {Table(h, rs) : rs \in UNION {[1..k -> RowsUnder(h)] : k \in 0..MaxRows}}
                               : h \in HeaderShapes }
    /\ InitRequest

SpecRows == InitRows /\ [][NextRequest]_vars

(***************************************************************************)
(* A call of clean_amount on its own.                                      *)
(***************************************************************************)
MaxAmountLen == 5
AmountAlphabet == {"(", ")", "-", "+", "4", ".", "$", " "}
AmountInputs ==
    {NaN} \cup {Txt(s) : s \in UNION {[1..n -> AmountAlphabet] : n \in 0..MaxAmountLen}}

InitAmount ==
    /\ pc = "amount_call"
    /\ amount_in \in AmountInputs
    /\ amount_out = None
    /\ ReqIdle /\ DateIdle

CleanAmountCall ==
    /\ pc = "amount_call"
    /\ amount_out' = clean_amount(amount_in)
    /\ pc' = "amount_done"
    /\ UNCHANGED <<amount_in, reqVars, dateVars>>

NextAmount == CleanAmountCall
SpecAmount == InitAmount /\ [][NextAmount]_vars

(***************************************************************************)
(* A call of clean_date on its own, one parse attempt per step.            *)
(***************************************************************************)
DateFields == { <<"2","0","2","4">>, <<"0","1">>, <<"0","2">>, <<"1","3">>,
                <<"3","1">>, <<"5">> }
DateSeps == {"-", "/", "."}
NumericDates ==
    { a \o <<p>> \o b \o <<q>> \o c :
        a \in DateFields, b \in DateFields, c \in DateFields, p \in DateSeps, q \in DateSeps }
NamedDates ==
    { <<"J","a","n","u","a","r","y"," ","0","5",","," ","2","0","2","4">>,
      <<"J","a","n"," ","0","5",","," ","2","0","2","4">>,
      <<"j","a","n"," "," ","5",","," ","2","0","2","4">>,
      <<"0","5"," ","J","a","n","u","a","r","y"," ","2","0","2","4">>,
      <<"0","5"," ","J","a","n"," ","2","0","2","4">>,
      <<"M","a","y"," ","3","1",","," ","2","0","2","4">>,
      <<"3","1"," ","M","A","Y"," ","2","0","2","4">>,
      <<"F","e","b"," ","3","0",","," ","2","0","2","4">>,
      <<"2","9"," ","F","e","b","r","u","a","r","y"," ","2","0","2","4">> }
OtherDates ==
    { <<>>, <<" ">>, <<"g","a","r","b","a","g","e">>,
      <<"2","0","2","4","0","1","0","2">>,
      <<" ","2","0","2","4","-","0","1","-","0","2"," ">>,
      <<"0","1","/","0","2","/","2","4">> }
DateInputs == {NaN} \cup {Txt(s) : s \in NumericDates \cup NamedDates \cup OtherDates}

InitDate ==
    /\ pc = "date_call"
    /\ date_in \in DateInputs
    /\ date_str = <<>>
    /\ date_auto = Fail
    /\ date_idx = 0
    /\ date_tried = <<>>
    /\ date_out = None
    /\ ReqIdle /\ AmtIdle

\* lines 48-51: the early return, else the trimmed text enters the loop
CleanDateEnter ==
    /\ pc = "date_call"
    /\ IF IsNa(date_in) \/ date_in = Txt(<<>>)
       THEN /\ date_out' = None
            /\ pc' = "date_done"
            /\ UNCHANGED <<date_str, date_idx>>
       ELSE /\ date_str' = Strip(Str(date_in))
            /\ date_idx' = 1
            /\ pc' = "date_loop"
            /\ UNCHANGED date_out
    /\ UNCHANGED <<date_in, date_auto, date_tried, reqVars, amtVars>>

\* lines 60-64: one iteration of the loop over date_formats
CleanDateTryFormat ==
    /\ pc = "date_loop"
    /\ date_idx <= Len(date_formats)
    /\ date_tried' = Append(date_tried, date_formats[date_idx])
    /\ IF StrpTime(date_str, date_formats[date_idx]) # Fail
       THEN /\ date_out' = StrpTime(date_str, date_formats[date_idx])
            /\ pc' = "date_done"
            /\ UNCHANGED date_idx
       ELSE /\ date_idx' = date_idx + 1
            /\ UNCHANGED <<pc, date_out>>
    /\ UNCHANGED <<date_in, date_str, date_auto, reqVars, amtVars>>

\* lines 66-70: the format-less attempt once the loop is exhausted
CleanDateAuto ==
    /\ pc = "date_loop"
    /\ date_idx > Len(date_formats)
    /\ \E auto \in AutoOutcomes(date_str) :
         /\ date_auto' = auto
         /\ date_out' = IF auto = Fail THEN None ELSE auto
    /\ date_tried' = Append(date_tried, AutoParse)
    /\ pc' = "date_done"
    /\ UNCHANGED <<date_in, date_str, date_idx, reqVars, amtVars>>

NextDate == CleanDateEnter \/ CleanDateTryFormat \/ CleanDateAuto
SpecDate == InitDate /\ [][NextDate]_vars

(***************************************************************************)
(* Properties of clean_amount (SpecAmount).                                *)
(***************************************************************************)
\* The argument as the parenthesis test sees it: trimmed, then rid of
\* currency symbols, commas and whitespace.
Bared(v) == RemoveChars(Strip(v.s), AmountJunk)
Parenthesized(v) ==
    /\ v.t = "str"
    /\ Len(Bared(v)) >= 2
    /\ Head(Bared(v)) = "("
    /\ Bared(v)[Len(Bared(v))] = ")"
Inner(v) == SubSeq(Bared(v), 2, Len(Bared(v)) - 1)

\* C7 as stated: every parenthesized amount "(X)" whose X is a number, signed
\* or not, comes back as the negated value of X.
C7_NegatesEveryX ==
    (pc = "amount_done" /\ Parenthesized(amount_in) /\ FloatOk(Inner(amount_in)))
        => amount_out = Neg(FloatVal(Inner(amount_in)))

\* C7 amended: a parenthesized amount "(X)" comes back as the negated value of
\* X when X is an unsigned decimal number, and as 0.0 for every other X, one
\* that already carries a sign included.
C7_NegatesUnsignedX ==
    (pc = "amount_done" /\ Parenthesized(amount_in))
        => IF Unsigned(Inner(amount_in))
           THEN amount_out = Neg(UnsignedVal(Inner(amount_in)))
           ELSE amount_out = Zero

C7_Witness ==
    /\ pc = "amount_done"
    /\ Parenthesized(amount_in)
    /\ Unsigned(Inner(amount_in))
    /\ Bared(amount_in) # amount_in.s
    /\ amount_out.m < 0

(***************************************************************************)
(* Properties of clean_date (SpecDate).                                    *)
(***************************************************************************)
\* The order the formats are documented in: YYYY-MM-DD, MM/DD/YYYY,
\* DD/MM/YYYY, MM-DD-YYYY, DD-MM-YYYY, YYYY/MM/DD, DD.MM.YYYY, MM.DD.YYYY,
\* YYYY.MM.DD, Month DD, YYYY, Mon DD, YYYY, DD Month YYYY, DD Mon YYYY,
\* and the format-less attempt last.
Ladder ==
    << <<"%Y","-","%m","-","%d">>,
       <<"%m","/","%d","/","%Y">>,
       <<"%d","/","%m","/","%Y">>,
       <<"%m","-","%d","-","%Y">>,
       <<"%d","-","%m","-","%Y">>,
       <<"%Y","/","%m","/","%d">>,
       <<"%d",".","%m",".","%Y">>,
       <<"%m",".","%d",".","%Y">>,
       <<"%Y",".","%m",".","%d">>,
       <<"%B"," ","%d",","," ","%Y">>,
       <<"%b"," ","%d",","," ","%Y">>,
       <<"%d"," ","%B"," ","%Y">>,
       <<"%d"," ","%b"," ","%Y">>,
       AutoParse >>

NonEmptyDate(v) == v.t = "str" /\ v.s # <<>>

\* C8: for a non-empty input the attempts made are a prefix of the documented
\* order, every attempt but the last failed, the value returned is the parse
\* of the last (so the first format that succeeds decides), the format-less
\* attempt comes only after all thirteen formats failed, and None is returned
\* only when that attempt failed too.
C8_FirstFormatWins ==
    (pc = "date_done" /\ NonEmptyDate(date_in)) =>
        LET s == Strip(date_in.s)
            n == Len(date_tried)
        IN  /\ n \in 1..Len(Ladder)
            /\ \A i \in 1..n : date_tried[i] = Ladder[i]
            /\ \A i \in 1..(n - 1) : StrpTime(s, Ladder[i]) = Fail
            /\ IF n < Len(Ladder)
               THEN date_out = StrpTime(s, Ladder[n]) /\ date_out # Fail
               ELSE date_out = (IF date_auto = Fail THEN None ELSE date_auto)
            /\ date_out = None => (n = Len(Ladder) /\ date_auto = Fail)

\* 01/02/2024 has been read month first, after one failed attempt.
C8_Witness ==
    /\ pc = "date_done"
    /\ date_in = Txt(<<"0","1","/","0","2","/","2","0","2","4">>)
    /\ date_out = Date(2024, 1, 2)
    /\ Len(date_tried) = 2

(***************************************************************************)
(* Properties of analyze_csv.  They speak of the upload as it arrived:     *)
(* the header row, its canonical (trimmed, lowercased) labels, the raw     *)
(* cells.                                                                  *)
(***************************************************************************)
EndsInCsv(name) ==
    LET n == Len(name)
    IN  n >= 4 /\ name[n - 3] = "." /\ name[n - 2] = "c" /\ name[n - 1] = "s" /\ name[n] = "v"

IsTable == upload.kind = "table"
NCols == Len(upload.header)
Canon(i) == Lower(Strip(upload.header[i]))
WordIn(i, words) == \E w \in words : Contains(Canon(i), w)

AmountWords ==
    { <<"a","m","o","u","n","t">>, <<"c","o","s","t">>, <<"p","r","i","c","e">>,
      <<"t","o","t","a","l">>, <<"s","p","e","n","d">>, <<"e","x","p","e","n","s","e">> }
CategoryWords ==
    { <<"c","a","t","e","g","o","r","y">>, <<"t","y","p","e">>,
      <<"c","l","a","s","s">>, <<"g","r","o","u","p">> }
FoodWords ==
    { <<"f","o","o","d">>, <<"r","e","s","t","a","u","r","a","n","t">>,
      <<"g","r","o","c","e","r","y">>, <<"d","i","n","i","n","g">>,
      <<"m","e","a","l">>, <<"l","u","n","c","h">>, <<"d","i","n","n","e","r">>,
      <<"b","r","e","a","k","f","a","s","t">>, <<"c","a","f","e">>,
      <<"f","a","s","t"," ","f","o","o","d">>, <<"t","a","k","e","o","u","t">> }

Selected == pc \in {"clean", "aggregate", "done"} /\ amount_col # None
Answered == pc = "done" /\ IsTable /\ NCols > 0

\* C1 as stated: a .csv upload whose table has no column at all ends in a
\* client error (4xx), the missing category column.
C1_NoColumnIsClientError ==
    (pc = "done" /\ EndsInCsv(filename) /\ IsTable /\ NCols = 0)
        => response.status \in 400..499

\* C2: a file name that does not end in .csv is turned down with status 400,
\* and in that run the body is never read, decoded or parsed, no column is
\* chosen, nothing is normalised and no result record is made.
C2_RejectedBeforeReading ==
    ~EndsInCsv(filename) =>
        /\ pc \in {"check", "done"}
        /\ contents = None
        /\ df = None
        /\ amount_col = None /\ category_col = None
        /\ food_mask = <<>>
        /\ exc = "None"
        /\ pc = "done" => (response.status = 400 /\ "answer" \notin DOMAIN response)

C2_Witness ==
    /\ pc = "done"
    /\ filename = <<"r","e","p","o","r","t",".","t","x","t">>
    /\ IsTable /\ NCols > 0
    /\ response.status = 400

\* C4: the amount column is the first canonical header, in column order, that
\* contains an amount word; with none it is the second column of a table with
\* more than one column, and the first column otherwise.
C4_AmountColumn ==
    (Selected /\ IsTable /\ NCols > 0) =>
        IF \E i \in 1..NCols : WordIn(i, AmountWords)
        THEN \E i \in 1..NCols :
                /\ WordIn(i, AmountWords)
                /\ \A j \in 1..(i - 1) : ~WordIn(j, AmountWords)
                /\ amount_col = Txt(Canon(i))
        ELSE IF NCols > 1 THEN amount_col = Txt(Canon(2))
        ELSE amount_col = Txt(Canon(1))

\* No header is amount-like, and the second of several columns was taken.
C4_Witness ==
    /\ Selected /\ IsTable /\ NCols > 2
    /\ \A i \in 1..NCols : ~WordIn(i, AmountWords)
    /\ amount_col = Txt(Canon(2))
    /\ Canon(2) # upload.header[2]

\* C5: the category column is the first canonical header that contains a
\* category word, else the first column; and a table whose only column is
\* neither category-like nor amount-like gets that column as both category
\* and amount column and is answered with a result record.
C5_CategoryColumn ==
    /\ (Selected /\ IsTable /\ NCols > 0) =>
          IF \E i \in 1..NCols : WordIn(i, CategoryWords)
          THEN \E i \in 1..NCols :
                  /\ WordIn(i, CategoryWords)
                  /\ \A j \in 1..(i - 1) : ~WordIn(j, CategoryWords)
                  /\ category_col = Txt(Canon(i))
          ELSE category_col = Txt(Canon(1))
    /\ (pc = "done" /\ EndsInCsv(filename) /\ IsTable /\ NCols = 1
            /\ ~WordIn(1, CategoryWords) /\ ~WordIn(1, AmountWords)) =>
          /\ amount_col = Txt(Canon(1))
          /\ category_col = Txt(Canon(1))
          /\ response.status = 200
          /\ "answer" \in DOMAIN response

C5_Witness ==
    /\ pc = "done" /\ IsTable /\ NCols = 1
    /\ ~WordIn(1, CategoryWords) /\ ~WordIn(1, AmountWords)
    /\ Len(upload.rows) = 1
    /\ amount_col = category_col
    /\ response.status = 200

\* C10: a request has its one outcome when it ends and none before; when a
\* step after the file-name check failed, that outcome is status 500 with the
\* failure's text, and carries no answer.
C10_FailureIsServerError ==
    /\ (pc = "done") <=> (response # None)
    /\ (EndsInCsv(filename) /\ pc \in {"except", "done"}
            /\ (~IsTable \/ NCols = 0)) => exc # "None"
    /\ (pc = "done" /\ exc # "None") =>
          /\ response.status = 500
          /\ response.detail = <<"Error processing CSV: ", exc>>
          /\ "answer" \notin DOMAIN response
    /\ (pc = "done" /\ "answer" \in DOMAIN response) => (exc = "None" /\ response.status = 200)

C10_Witness ==
    /\ pc = "done"
    /\ exc = "UnicodeDecodeError"
    /\ response.status = 500

(***************************************************************************)
(* Properties of the cleaned rows and the sum (SpecRows).                  *)
(***************************************************************************)
CanonIndex(col) == CHOOSE i \in 1..NCols : Canon(i) = col.s
RawAmount(r) == upload.rows[r][CanonIndex(amount_col)]
RawCategory(r) == upload.rows[r][CanonIndex(category_col)]
RawDate(r) == upload.rows[r][CHOOSE i \in 1..NCols : Canon(i) = date_cols[1]]
CleanAmountOf(r) == GetCol(df, CLEAN_AMOUNT)[r]
CleanCategoryOf(r) == GetCol(df, CLEAN_CATEGORY)[r]
CleanDateOf(r) == GetCol(df, CLEAN_DATE)[r]
IsFood(c) == c.t = "str" /\ \E w \in FoodWords : Contains(c.s, w)
FoodRows == {r \in 1..NRows(df) : IsFood(CleanCategoryOf(r))}

\* The sum of clean_amount over a set of rows, a nan counting for nothing
RECURSIVE SumOver(_)
SumOver(rows) ==
    IF rows = {} THEN Zero
    ELSE LET r == CHOOSE r \in rows : TRUE
         IN  IF CleanAmountOf(r) = NaN THEN SumOver(rows \ {r})
             ELSE Add(CleanAmountOf(r), SumOver(rows \ {r}))

\* Whether the raw amount cell is a number once cleaned up
AmountParses(v) ==
    /\ v.t = "str"
    /\ LET b == Bared(v)
       IN  FloatOk(IF Len(b) >= 2 /\ Head(b) = "(" /\ b[Len(b)] = ")"
                   THEN <<"-">> \o SubSeq(b, 2, Len(b) - 1) ELSE b)

\* C3 as stated: the answer is the sum of clean_amount over the rows whose
\* clean_category contains a food keyword.
C3_AnswerIsTheSum ==
    Answered => response.answer = SumOver(FoodRows)

\* C3 amended: the answer is that sum rounded to two decimal places; rows
\* that do not match add nothing, and with no matching row it is 0.0.
C3_AnswerIsTheRoundedSum ==
    Answered =>
        /\ response.answer = Round2(SumOver(FoodRows))
        /\ FoodRows = {} => response.answer = Zero

\* A matching and a non-matching row, and a sum that rounding changes.
C3_Witness ==
    /\ Answered
    /\ FoodRows # {} /\ FoodRows # 1..NRows(df)
    /\ response.answer # SumOver(FoodRows)

\* C6: a well-formed table is always answered; a row is summed iff its
\* clean_category matches, whatever its amount and date; an amount that does
\* not parse counts as exactly 0.0; a date that no format and not the
\* format-less parser can read becomes None.
C6_ParseFailuresAreAbsorbed ==
    Answered =>
        /\ response.status = 200
        /\ \A r \in 1..NRows(df) : food_mask[r] <=> IsFood(CleanCategoryOf(r))
        /\ \A r \in 1..NRows(df) : ~AmountParses(RawAmount(r)) => CleanAmountOf(r) = Zero
        /\ response.answer =
              Round2(SumOver({r \in 1..NRows(df) : food_mask[r] /\ AmountParses(RawAmount(r))}))
        /\ date_cols # <<>> =>
              \A r \in 1..NRows(df) :
                  (ReachesAuto(RawDate(r)) /\ ~auto_parse[r]) => CleanDateOf(r) = None

\* A summed row whose amount did not parse, next to an unreadable date.
C6_Witness ==
    /\ Answered
    /\ date_cols # <<>>
    /\ \E r \in 1..NRows(df) :
          /\ food_mask[r]
          /\ ~AmountParses(RawAmount(r))
          /\ CleanDateOf(r) = None
    /\ \E r \in 1..NRows(df) : food_mask[r] /\ AmountParses(RawAmount(r))

\* C9 as stated: every well-formed table gives one cleaned row per source row,
\* in order, with clean_amount and clean_category computed from the raw cells
\* of the uploaded table.
C9_CleanedFromRawCells ==
    Answered =>
        /\ response.status = 200
        /\ NRows(df) = Len(upload.rows)
        /\ \A r \in 1..NRows(df) :
              /\ CleanAmountOf(r) = clean_amount(RawAmount(r))
              /\ CleanCategoryOf(r) = clean_category(RawCategory(r))

====
